---- MODULE Spec2Model ----
(***************************************************************************)
(* MLA archive helpers (mla_archive/src/helpers.rs): linear_extract, the   *)
(* single-pass demultiplexer of an archive's block stream, and             *)
(* StreamWriter, the io::Write adapter over one started archive file.      *)
(*                                                                         *)
(* The archive is a sequence of bytes.  A block header is a tag byte       *)
(* followed by one byte per field; the payload of a FileContent block is   *)
(* the `length` bytes after its header.  Offsets are counted from zero:    *)
(* the byte at offset p is archive[p + 1].                                 *)
(***************************************************************************)
EXTENDS Integers, Sequences, FiniteSets, TLC

\* ------------------------------------------------------------------ bounds
MaxFiles == 2        \* start_file calls per archive
MaxBlocks == 3       \* FileContent blocks per archive written by the writer
MaxChunk == 2        \* bytes of one write_all buffer
MaxRawBlocks == 3    \* blocks of a foreign (possibly malformed) stream
MaxLiveBlocks == 2   \* blocks of a foreign stream in the termination check
BufSize == 4         \* capacity of the BufReader (scaled down)
CopyBufSize == 2     \* bytes io::copy hands to one write call (scaled down)

Names == {10, 11}    \* filenames, one byte each
Ids == {0, 1}        \* ArchiveFileID values of a foreign stream
RawLengths == {1, 2} \* declared payload lengths of a foreign stream
ShortLengths == {2}  \* declared lengths of its payloads that lack a byte

\* block discriminants of the wire format
TagFileStart == 0
TagFileContent == 1
TagEndOfFile == 2
TagEndOfArchiveData == 3
TagUnknown == 4

VARIABLES
    archive,      \* the bytes of the archive (what archive.src reads)
    wstate,       \* "writing" | "finalized" | "raw" | "rawEnd"
    nextId,       \* ArchiveWriter: id the next start_file returns
    openFiles,    \* ArchiveWriter: ids started and not ended
    files,        \* filename -> bytes the caller wrote to it (tests' `files`)
    nblocks,      \* blocks appended so far
    wres,         \* what the last StreamWriter::write call returned, if any
    flushed,      \* bytes of the archive that have reached the physical sink
    pc,           \* position in linear_extract: "idle" | "seek" | "read_block" | "done"
    export,       \* filename -> bytes received by its sink
    id2filename,  \* the registry of linear_extract
    pos,          \* read offset of `src` (the BufReader)
    srcPos,       \* read offset of archive.src (under the BufReader)
    seeks,        \* offsets archive.src was sought to, in order
    result,       \* "none" | "Ok" | "Err"
    blocks,       \* history: the blocks decoded by this call, in order
    dropped       \* history: bytes copied to io::sink()

wvars == <<archive, wstate, nextId, openFiles, files, nblocks, wres, flushed>>
rvars == <<pc, export, id2filename, pos, srcPos, seeks, result, blocks, dropped>>
vars == <<archive, wstate, nextId, openFiles, files, nblocks, wres, flushed,
          pc, export, id2filename, pos, srcPos, seeks, result, blocks, dropped>>

Min(a, b) == IF a < b THEN a ELSE b

EmptyMap == [x \in {} |-> 0]

\* HashMap::insert
Insert(m, k, v) == [x \in DOMAIN m \cup {k} |-> IF x = k THEN v ELSE m[x]]

\* HashMap::remove
Remove(m, k) == [x \in DOMAIN m \ {k} |-> m[x]]

\* ------------------------------------------------------------- wire format
\* the bytes b, b+1, ..., b+n-1: the caller's data, every byte distinct
Data(b, n) == [i \in 1..n |-> b + i - 1]

EncFileStart(id, filename) == <<TagFileStart, id, filename>>
EncFileContent(id, length, buf) == <<TagFileContent, id, length>> \o buf
EncEndOfFile(id) == <<TagEndOfFile, id>>
EncEndOfArchiveData == <<TagEndOfArchiveData>>

\* a decode that failed at offset `at`, having read up to offset `next`
NoBlock(at, next) ==
    [ok |-> FALSE, kind |-> "Error", id |-> 0, filename |-> 0, length |-> 0,
     at |-> at, next |-> next]

\* ArchiveFileBlock::from: decode one block header at offset p of s.  A
\* header that runs past the end of s, or an unknown tag, is an error.
DecodeBlock(s, p) ==
    IF p >= Len(s) THEN NoBlock(p, Len(s))
    ELSE LET tag == s[p + 1] IN
         CASE tag = TagFileStart ->
                IF p + 3 > Len(s) THEN NoBlock(p, Len(s))
                ELSE [ok |-> TRUE, kind |-> "FileStart", id |-> s[p + 2],
                      filename |-> s[p + 3], length |-> 0, at |-> p, next |-> p + 3]
           [] tag = TagFileContent ->
                IF p + 3 > Len(s) THEN NoBlock(p, Len(s))
                ELSE [ok |-> TRUE, kind |-> "FileContent", id |-> s[p + 2],
                      filename |-> 0, length |-> s[p + 3], at |-> p, next |-> p + 3]
           [] tag = TagEndOfFile ->
                IF p + 2 > Len(s) THEN NoBlock(p, Len(s))
                ELSE [ok |-> TRUE, kind |-> "EndOfFile", id |-> s[p + 2],
                      filename |-> 0, length |-> 0, at |-> p, next |-> p + 2]
           [] tag = TagEndOfArchiveData ->
                [ok |-> TRUE, kind |-> "EndOfArchiveData", id |-> 0,
                 filename |-> 0, length |-> 0, at |-> p, next |-> p + 1]
           [] OTHER -> NoBlock(p, p + 1)

\* ------------------------------------------------------------ ArchiveWriter
\* ArchiveWriter::append_file_content: all or nothing; the id must be open.
append_file_content(arch, open, id, length, buf) ==
    IF id \in open
    THEN [ok |-> TRUE, archive |-> arch \o EncFileContent(id, length, buf)]
    ELSE [ok |-> FALSE, archive |-> arch]

\* faulty variant: only the first byte is appended, the whole length is reported
write_short(arch, open, file_id, buf) ==
    LET r == append_file_content(arch, open, file_id, 1, SubSeq(buf, 1, 1)) IN
    IF r.ok THEN [ok |-> TRUE, n |-> Len(buf), archive |-> r.archive]
    ELSE [ok |-> FALSE, n |-> 0, archive |-> r.archive]

\* faulty variant: a long buffer is accepted in part, with a short count
write_partial(arch, open, file_id, buf) ==
    LET r == append_file_content(arch, open, file_id, 1, SubSeq(buf, 1, 1)) IN
    IF r.ok THEN [ok |-> TRUE, n |-> 1, archive |-> r.archive]
    ELSE [ok |-> FALSE, n |-> 0, archive |-> r.archive]

\* StreamWriter::write: one append_file_content of the whole buffer for the
\* adapter's file_id; on success the whole length is reported as written.
write(arch, open, file_id, buf) ==
    LET r == append_file_content(arch, open, file_id, Len(buf), buf) IN
    IF r.ok THEN [ok |-> TRUE, n |-> Len(buf), archive |-> r.archive]
    ELSE [ok |-> FALSE, n |-> 0, archive |-> r.archive]

RECURSIVE copy_to_writer(_, _, _, _)
\* io::copy(&mut data, &mut sw): read up to CopyBufSize bytes, write_all them
\* to the StreamWriter, until the data is exhausted or a write fails.
copy_to_writer(arch, open, file_id, data) ==
    IF data = <<>> THEN [ok |-> TRUE, archive |-> arch]
    ELSE LET n == Min(CopyBufSize, Len(data))
             r == write(arch, open, file_id, SubSeq(data, 1, n))
         IN IF ~r.ok THEN [ok |-> FALSE, archive |-> r.archive]
            ELSE copy_to_writer(r.archive, open, file_id,
                                SubSeq(data, r.n + 1, Len(data)))

Written == Len(archive)

\* no StreamWriter::write call since the last ArchiveWriter call
NoCall == [called |-> FALSE, ok |-> FALSE, id |-> 0, len |-> 0, n |-> 0]

\* ArchiveWriter::start_file
start_file(filename) ==
    /\ wstate = "writing"
    /\ nextId < MaxFiles
    /\ filename \notin DOMAIN files
    /\ archive' = archive \o EncFileStart(nextId, filename)
    /\ nextId' = nextId + 1
    /\ openFiles' = Insert(openFiles, nextId, filename)
    /\ files' = Insert(files, filename, <<>>)
    /\ wres' = NoCall
    /\ UNCHANGED <<wstate, nblocks, flushed>>
    /\ UNCHANGED rvars

\* sw.write_all(buf) on StreamWriter::new(&mut mla, id)
write_all(id, n) ==
    /\ wstate = "writing"
    /\ id \in DOMAIN openFiles
    /\ nblocks < MaxBlocks
    /\ LET buf == Data(Written, n)
           r == write(archive, DOMAIN openFiles, id, buf)
       IN /\ r.ok
          /\ archive' = r.archive
          /\ files' = [files EXCEPT ![openFiles[id]] = @ \o buf]
    /\ nblocks' = nblocks + 1
    /\ wres' = NoCall
    /\ UNCHANGED <<wstate, nextId, openFiles, flushed>>
    /\ UNCHANGED rvars

\* io::copy(&mut data, &mut sw) on StreamWriter::new(&mut mla, id)
io_copy(id, n) ==
    /\ wstate = "writing"
    /\ id \in DOMAIN openFiles
    /\ LET data == Data(Written, n)
           r == copy_to_writer(archive, DOMAIN openFiles, id, data)
           k == (n + CopyBufSize - 1) \div CopyBufSize
       IN /\ r.ok
          /\ nblocks + k <= MaxBlocks
          /\ archive' = r.archive
          /\ files' = [files EXCEPT ![openFiles[id]] = @ \o data]
          /\ nblocks' = nblocks + k
    /\ wres' = NoCall
    /\ UNCHANGED <<wstate, nextId, openFiles, flushed>>
    /\ UNCHANGED rvars

\* one sw.write(buf) on StreamWriter::new(&mut mla, id), for any id, open or
\* not: the call's return value is kept in wres
sw_write(id, n) ==
    /\ wstate = "writing"
    /\ nblocks < MaxBlocks
    /\ LET buf == Data(Written, n)
           r == write(archive, DOMAIN openFiles, id, buf)
       IN /\ archive' = r.archive
          /\ wres' = [called |-> TRUE, ok |-> r.ok, id |-> id, len |-> n, n |-> r.n]
          /\ files' = IF r.ok THEN [files EXCEPT ![openFiles[id]] = @ \o buf]
                      ELSE files
          /\ nblocks' = IF r.ok THEN nblocks + 1 ELSE nblocks
    /\ UNCHANGED <<wstate, nextId, openFiles, flushed>>
    /\ UNCHANGED rvars

\* ArchiveWriter::flush: everything written so far reaches the physical
\* sink; no block is written, no file is closed
archive_flush(w) == [w EXCEPT !.flushed = Len(w.archive)]

\* faulty variant: flushing the adapter also ends its file
flush_close(w, file_id) ==
    archive_flush([w EXCEPT !.archive = @ \o EncEndOfFile(file_id),
                            !.openFiles = Remove(@, file_id)])

\* StreamWriter::flush: self.archive.flush()
flush(w, file_id) == archive_flush(w)

\* sw.flush() on StreamWriter::new(&mut mla, id)
sw_flush(id) ==
    /\ wstate = "writing"
    /\ LET w == flush([archive |-> archive, openFiles |-> openFiles,
                       flushed |-> flushed], id)
       IN /\ archive' = w.archive
          /\ openFiles' = w.openFiles
          /\ flushed' = w.flushed
    /\ UNCHANGED <<wstate, nextId, files, nblocks, wres>>
    /\ UNCHANGED rvars

\* ArchiveWriter::end_file
end_file(id) ==
    /\ wstate = "writing"
    /\ id \in DOMAIN openFiles
    /\ archive' = archive \o EncEndOfFile(id)
    /\ openFiles' = Remove(openFiles, id)
    /\ wres' = NoCall
    /\ UNCHANGED <<wstate, nextId, files, nblocks, flushed>>
    /\ UNCHANGED rvars

\* ArchiveWriter::finalize
finalize ==
    /\ wstate = "writing"
    /\ DOMAIN openFiles = {}
    /\ archive' = archive \o EncEndOfArchiveData
    /\ wstate' = "finalized"
    /\ wres' = NoCall
    /\ flushed' = Len(archive')
    /\ UNCHANGED <<nextId, openFiles, files, nblocks>>
    /\ UNCHANGED rvars

\* ----------------------------------------------------------- linear_extract
RECURSIVE Fill(_, _, _)
\* io::BufReader over archive.src: the offset of archive.src after the
\* BufReader has served the bytes before offset q, refilling BufSize bytes
\* at a time whenever its buffer is empty.
Fill(len, sp, q) ==
    IF q <= sp \/ sp >= len THEN sp
    ELSE Fill(len, Min(sp + BufSize, len), q)

\* faulty variant: the seek is left out, the source stays where it was
SeekStart_none(cur) == cur

\* archive.src.seek(SeekFrom::Start(0))
SeekStart(cur) == 0

\* the state of the call right after the seek, with the sinks `sinks`
Start(sinks) ==
    [pos |-> 0, srcPos |-> 0, id2filename |-> EmptyMap, export |-> sinks,
     result |-> "none", dropped |-> 0]

\* faulty variant: every FileStart is registered, requested or not
FileStart_all(st, b) ==
    [st EXCEPT !.id2filename = Insert(@, b.id, b.filename)]

\* faulty variant: an id that is registered keeps its first filename
FileStart_keep(st, b) ==
    IF b.filename \in DOMAIN st.export /\ b.id \notin DOMAIN st.id2filename
    THEN [st EXCEPT !.id2filename = Insert(@, b.id, b.filename)]
    ELSE st

\* faulty variant: one slot for the file being extracted instead of a map
FileStart_single(st, b) ==
    IF b.filename \in DOMAIN st.export
    THEN [st EXCEPT !.id2filename = Insert(EmptyMap, b.id, b.filename)]
    ELSE st

\* match arm FileStart { filename, id }
FileStart(st, b) ==
    IF b.filename \in DOMAIN st.export
    THEN [st EXCEPT !.id2filename = Insert(@, b.id, b.filename)]
    ELSE st

\* faulty variant: the close of one file drops every writer
EndOfFile_clear(st, b) ==
    [st EXCEPT !.id2filename = EmptyMap]

\* faulty variant: closing an id that is not registered is an error
EndOfFile_strict(st, b) ==
    IF b.id \in DOMAIN st.id2filename
    THEN [st EXCEPT !.id2filename = Remove(@, b.id)]
    ELSE [st EXCEPT !.result = "Err"]

\* match arm EndOfFile { id, .. }
EndOfFile(st, b) ==
    [st EXCEPT !.id2filename = Remove(@, b.id)]

\* (&mut src).take(length): the bytes the copy reads, at most `length` and
\* at most what is left of the stream
Take(s, p, length) == SubSeq(s, p + 1, Min(p + length, Len(s)))

\* faulty variant: the payload of a block that is not extracted is not exhausted
FileContent_nodrain(s, st, b) ==
    LET copy_src == Take(s, st.pos, b.length)
        extracted == /\ b.id \in DOMAIN st.id2filename
                     /\ st.id2filename[b.id] \in DOMAIN st.export
    IN IF extracted
       THEN [st EXCEPT !.export[st.id2filename[b.id]] = @ \o copy_src,
                       !.pos = @ + Len(copy_src)]
       ELSE st

\* faulty variant: a block of an unregistered id goes to some writer of the map
FileContent_anysink(s, st, b) ==
    LET copy_src == Take(s, st.pos, b.length)
        extracted == /\ b.id \in DOMAIN st.id2filename
                     /\ st.id2filename[b.id] \in DOMAIN st.export
    IN IF extracted
       THEN [st EXCEPT !.export[st.id2filename[b.id]] = @ \o copy_src,
                       !.pos = @ + Len(copy_src)]
       ELSE IF DOMAIN st.export # {}
       THEN [st EXCEPT !.export[CHOOSE f \in DOMAIN st.export : TRUE] = @ \o copy_src,
                       !.pos = @ + Len(copy_src)]
       ELSE [st EXCEPT !.dropped = @ + Len(copy_src),
                       !.pos = @ + Len(copy_src)]

\* faulty variant: a block of an unregistered id is an error
FileContent_strict(s, st, b) ==
    LET copy_src == Take(s, st.pos, b.length)
        extracted == /\ b.id \in DOMAIN st.id2filename
                     /\ st.id2filename[b.id] \in DOMAIN st.export
    IN IF extracted
       THEN [st EXCEPT !.export[st.id2filename[b.id]] = @ \o copy_src,
                       !.pos = @ + Len(copy_src)]
       ELSE [st EXCEPT !.result = "Err"]

\* match arm FileContent { length, id, .. }: io::copy of the payload to the
\* writer of the registered filename, else to io::sink()
FileContent(s, st, b) ==
    LET copy_src == Take(s, st.pos, b.length)
        extracted == /\ b.id \in DOMAIN st.id2filename
                     /\ st.id2filename[b.id] \in DOMAIN st.export
    IN IF extracted
       THEN [st EXCEPT !.export[st.id2filename[b.id]] = @ \o copy_src,
                       !.pos = @ + Len(copy_src)]
       ELSE [st EXCEPT !.dropped = @ + Len(copy_src),
                       !.pos = @ + Len(copy_src)]

\* the bytes io::copy has read from copy_src when the write that follows
\* the k-th accepted byte fails: whole buffers of CopyBufSize bytes
CopyRead(n, k) == Min(n, ((k \div CopyBufSize) + 1) * CopyBufSize)

\* faulty variant: the error of the copy is dropped and the loop goes on
FileContentErr_ignored(s, st, b, k) ==
    LET copy_src == Take(s, st.pos, b.length)
    IN [st EXCEPT !.export[st.id2filename[b.id]] = @ \o SubSeq(copy_src, 1, k),
                  !.pos = @ + CopyRead(Len(copy_src), k)]

\* io::copy(copy_src, writer)? when the writer accepts k bytes of the
\* payload and then returns an error: `?` returns it from linear_extract
FileContentErr(s, st, b, k) ==
    LET copy_src == Take(s, st.pos, b.length)
    IN [st EXCEPT !.export[st.id2filename[b.id]] = @ \o SubSeq(copy_src, 1, k),
                  !.pos = @ + CopyRead(Len(copy_src), k),
                  !.result = "SinkErr"]

\* faulty variant: the sentinel does not end the loop
EndOfArchiveData_continue(st, b) == st

\* match arm EndOfArchiveData {}: break 'read_block, then Ok(())
EndOfArchiveData(st, b) ==
    [st EXCEPT !.result = "Ok"]

\* faulty variant: a failed decode is tried again
DecodeError_retry(st, b) == st

\* faulty variant: a failed decode is taken for the end of the archive
DecodeError_ok(st, b) ==
    [st EXCEPT !.result = "Ok"]

\* faulty variant: a failed decode empties the sinks written so far
DecodeError_rollback(st, b) ==
    [st EXCEPT !.result = "Err",
               !.export = [f \in DOMAIN st.export |-> <<>>]]

\* ArchiveFileBlock::from(&mut src)?: a failed decode ends the call with
\* the error; nothing else is touched
DecodeError(st, b) ==
    [st EXCEPT !.result = "Err"]

\* one iteration of 'read_block: decode a block (`?` returns its error) and
\* dispatch on its kind
Step(s, st) ==
    LET b == DecodeBlock(s, st.pos)
        st1 == [st EXCEPT !.pos = b.next]
        st2 == IF ~b.ok THEN DecodeError(st1, b)
               ELSE CASE b.kind = "FileStart" -> FileStart(st1, b)
                      [] b.kind = "EndOfFile" -> EndOfFile(st1, b)
                      [] b.kind = "FileContent" -> FileContent(s, st1, b)
                      [] OTHER -> EndOfArchiveData(st1, b)
    IN [st2 EXCEPT !.srcPos = Fill(Len(s), st.srcPos, st2.pos)]

RECURSIVE Loop(_, _)
\* the loop 'read_block run to its end
Loop(s, st) == IF st.result # "none" THEN st ELSE Loop(s, Step(s, st))

\* linear_extract(archive, export) as a function of the stream and the
\* filenames of the export map (every sink empty at the call)
Run(s, keys) == Loop(s, Start([k \in keys |-> <<>>]))

\* the call: the caller hands over its export map; archive.src is wherever
\* the reader's earlier use left it
linear_extract(keys) ==
    /\ pc = "idle"
    /\ pc' = "seek"
    /\ export' = [k \in keys |-> <<>>]
    /\ \E p \in {0, Len(archive)} : srcPos' = p /\ pos' = p
    /\ UNCHANGED <<id2filename, seeks, result, blocks, dropped>>
    /\ UNCHANGED wvars

\* lines 26-34: the seek, the BufReader, the empty registry
seek ==
    /\ pc = "seek"
    /\ seeks' = Append(seeks, SeekStart(srcPos))
    /\ srcPos' = SeekStart(srcPos)
    /\ pos' = SeekStart(srcPos)
    /\ id2filename' = EmptyMap
    /\ pc' = "read_block"
    /\ UNCHANGED <<export, result, blocks, dropped>>
    /\ UNCHANGED wvars

Cur ==
    [pos |-> pos, srcPos |-> srcPos, id2filename |-> id2filename,
     export |-> export, result |-> result, dropped |-> dropped]

\* lines 36-71: one turn of the loop
read_block ==
    /\ pc = "read_block"
    /\ LET st == Step(archive, Cur) IN
        /\ pos' = st.pos
        /\ srcPos' = st.srcPos
        /\ id2filename' = st.id2filename
        /\ export' = st.export
        /\ result' = st.result
        /\ dropped' = st.dropped
        /\ pc' = IF st.result = "none" THEN "read_block" ELSE "done"
    /\ blocks' = Append(blocks, DecodeBlock(archive, pos))
    /\ UNCHANGED seeks
    /\ UNCHANGED wvars

\* lines 36-60: a turn of the loop on a FileContent block of an extracted
\* file whose writer fails after k bytes
sink_error(k) ==
    /\ pc = "read_block"
    /\ LET b == DecodeBlock(archive, pos) IN
        /\ b.ok
        /\ b.kind = "FileContent"
        /\ b.id \in DOMAIN id2filename
        /\ id2filename[b.id] \in DOMAIN export
        /\ k < Len(Take(archive, b.next, b.length))
        /\ LET st == FileContentErr(archive, [Cur EXCEPT !.pos = b.next], b, k) IN
            /\ pos' = st.pos
            /\ srcPos' = Fill(Len(archive), srcPos, st.pos)
            /\ id2filename' = st.id2filename
            /\ export' = st.export
            /\ result' = st.result
            /\ dropped' = st.dropped
            /\ pc' = IF st.result = "none" THEN "read_block" ELSE "done"
        /\ blocks' = Append(blocks, b)
    /\ UNCHANGED seeks
    /\ UNCHANGED wvars

\* ------------------------------------------------------ a foreign stream
\* the blocks a stream not produced by ArchiveWriter may hold: any id, any
\* filename, payloads shorter than declared, unknown tags
RawBlocks(at) ==
    {EncFileStart(i, f) : i \in Ids, f \in Names}
    \cup {EncFileContent(i, n, Data(at, n)) : i \in Ids, n \in RawLengths}
    \cup {EncFileContent(i, n, Data(at, n - 1)) : i \in Ids, n \in ShortLengths}
    \cup {EncEndOfFile(i) : i \in Ids}
    \cup {<<TagUnknown>>}

\* the stream's EndOfArchiveData, at most one; blocks may follow it
raw_end ==
    /\ wstate = "raw"
    /\ pc = "idle"
    /\ archive' = archive \o EncEndOfArchiveData
    /\ wstate' = "rawEnd"
    /\ UNCHANGED <<nextId, openFiles, files, nblocks, wres, flushed>>
    /\ UNCHANGED rvars

\* one more block of a stream that holds fewer than max of them
stream_block(bytes, max) ==
    /\ wstate \in {"raw", "rawEnd"}
    /\ pc = "idle"
    /\ nblocks < max
    /\ archive' = archive \o bytes
    /\ nblocks' = nblocks + 1
    /\ UNCHANGED <<wstate, nextId, openFiles, files, wres, flushed>>
    /\ UNCHANGED rvars

raw_block(bytes) == stream_block(bytes, MaxRawBlocks)

live_block(bytes) == stream_block(bytes, MaxLiveBlocks)

\* ---------------------------------------------------------- specifications
ReaderInit ==
    /\ pc = "idle"
    /\ export = EmptyMap
    /\ id2filename = EmptyMap
    /\ pos = 0
    /\ srcPos = 0
    /\ seeks = <<>>
    /\ result = "none"
    /\ blocks = <<>>
    /\ dropped = 0

WriterInit ==
    /\ archive = <<>>
    /\ nextId = 0
    /\ openFiles = EmptyMap
    /\ files = EmptyMap
    /\ nblocks = 0
    /\ wres = NoCall
    /\ flushed = 0

\* an archive written by ArchiveWriter and StreamWriter, then extracted
Init == wstate = "writing" /\ WriterInit /\ ReaderInit

Next ==
    \/ \E f \in Names : start_file(f)
    \/ \E id \in DOMAIN openFiles, n \in 1..MaxChunk : write_all(id, n)
    \/ \E id \in DOMAIN openFiles, n \in 1..(CopyBufSize + 1) : io_copy(id, n)
    \/ \E id \in Ids, n \in 1..MaxChunk : sw_write(id, n)
    \/ \E id \in Ids : sw_flush(id)
    \/ \E id \in DOMAIN openFiles : end_file(id)
    \/ finalize
    \/ (wstate = "finalized" /\ \E keys \in SUBSET Names : linear_extract(keys))
    \/ seek
    \/ read_block

Spec == Init /\ [][Next]_vars

\* any stream of blocks, extracted
RawInit == wstate = "raw" /\ WriterInit /\ ReaderInit

RawNext ==
    \/ \E bytes \in RawBlocks(Written) : raw_block(bytes)
    \/ raw_end
    \/ \E keys \in SUBSET Names : linear_extract(keys)
    \/ seek
    \/ read_block

SpecRaw == RawInit /\ [][RawNext]_vars

\* any stream of blocks, extracted into writers that may fail
SinkNext ==
    \/ \E bytes \in RawBlocks(Written) : raw_block(bytes)
    \/ raw_end
    \/ \E keys \in SUBSET Names : linear_extract(keys)
    \/ seek
    \/ read_block
    \/ \E n \in RawLengths : sink_error(n - 1)

SpecSink == RawInit /\ [][SinkNext]_vars

\* linear_extract is sequential code over a source and writers that return
\* from every call: once called, it takes its next step
LiveNext ==
    \/ \E bytes \in RawBlocks(Written) : live_block(bytes)
    \/ raw_end
    \/ \E keys \in SUBSET Names : linear_extract(keys)
    \/ seek
    \/ read_block
    \/ \E n \in RawLengths : sink_error(n - 1)

FairSink ==
    /\ RawInit
    /\ [][LiveNext]_vars
    /\ WF_vars(seek)
    /\ WF_vars(read_block \/ \E n \in RawLengths : sink_error(n - 1))

\* ------------------------------------------------------------------ claims
Done == pc = "done"

\* filenames of the export map that are archived files
Requested == DOMAIN export \cap DOMAIN files

RECURSIVE TotalLen(_)
\* total content length of the files named in S
TotalLen(S) ==
    IF S = {} THEN 0
    ELSE LET f == CHOOSE x \in S : TRUE IN Len(files[f]) + TotalLen(S \ {f})

\* the decoded FileContent blocks of two files alternate: a, b, a
Interleaved ==
    \E i, j, k \in 1..Len(blocks) :
        /\ i < j /\ j < k
        /\ blocks[i].kind = "FileContent"
        /\ blocks[j].kind = "FileContent"
        /\ blocks[k].kind = "FileContent"
        /\ blocks[i].id = blocks[k].id
        /\ blocks[i].id # blocks[j].id

\* C1: extracting a well-formed archive with an export map that has every
\* archived filename as a key returns Ok and leaves in each file's sink
\* exactly the bytes written to that file, in order, however the files'
\* content blocks interleave in the stream.
ThmC1 ==
    (Done /\ wstate = "finalized" /\ DOMAIN files \subseteq DOMAIN export)
        => /\ result = "Ok"
           /\ \A f \in DOMAIN files : export[f] = files[f]

WitC1 ==
    /\ Done /\ wstate = "finalized"
    /\ DOMAIN files = DOMAIN export
    /\ Cardinality(DOMAIN files) = 2
    /\ Interleaved
    /\ result = "Ok"
    /\ \A f \in DOMAIN files : export[f] = files[f] /\ files[f] # <<>>

\* C2: extracting a well-formed archive with an export map whose keys are a
\* strict, non-empty subset of the archived filenames returns Ok, leaves each
\* requested sink equal to the file's whole content, and reads and drops
\* every payload byte of the other files: they reach no sink, the export map
\* gets no new key, and the whole stream has been consumed.
ThmC2 ==
    (/\ Done /\ wstate = "finalized"
     /\ DOMAIN export # {}
     /\ DOMAIN export \subseteq DOMAIN files
     /\ DOMAIN export # DOMAIN files)
        => /\ result = "Ok"
           /\ \A f \in DOMAIN export : export[f] = files[f]
           /\ dropped = TotalLen(DOMAIN files \ DOMAIN export)
           /\ pos = Len(archive)

WitC2 ==
    /\ Done /\ wstate = "finalized"
    /\ Cardinality(DOMAIN export) = 1
    /\ Cardinality(DOMAIN files) = 2
    /\ Interleaved
    /\ result = "Ok"
    /\ dropped > 0
    /\ \A f \in DOMAIN export : export[f] = files[f] /\ files[f] # <<>>

\* one decoded block and the payload bytes that follow its header
BlockAt(s, b) ==
    [kind |-> b.kind, id |-> b.id, filename |-> b.filename,
     payload |-> Take(s, b.next, b.length)]

RECURSIVE ParseFrom(_, _)
\* the blocks of the stream s from offset p on, up to its EndOfArchiveData
\* or to the first header that does not decode
ParseFrom(s, p) ==
    LET b == DecodeBlock(s, p) IN
    IF ~b.ok THEN <<>>
    ELSE IF b.kind = "EndOfArchiveData" THEN <<BlockAt(s, b)>>
    ELSE <<BlockAt(s, b)>> \o ParseFrom(s, b.next + Len(BlockAt(s, b).payload))

Encode(r) ==
    CASE r.kind = "FileStart" -> EncFileStart(r.id, r.filename)
      [] r.kind = "FileContent" -> EncFileContent(r.id, Len(r.payload), r.payload)
      [] r.kind = "EndOfFile" -> EncEndOfFile(r.id)
      [] OTHER -> EncEndOfArchiveData

RECURSIVE EncodeAll(_)
EncodeAll(bl) == IF bl = <<>> THEN <<>> ELSE Encode(Head(bl)) \o EncodeAll(Tail(bl))

RECURSIVE PerFile(_, _)
\* for each FileStart of `starts` in turn, every block of bl with its id
PerFile(bl, starts) ==
    IF starts = <<>> THEN <<>>
    ELSE LET IsOfFile(r) == r.kind # "EndOfArchiveData" /\ r.id = Head(starts).id
         IN SelectSeq(bl, IsOfFile) \o PerFile(bl, Tail(starts))

\* the archive with the same blocks per file, each file's blocks written
\* contiguously, files in the order of their FileStart
Contiguous(s) ==
    LET bl == ParseFrom(s, 0)
        IsStart(r) == r.kind = "FileStart"
        IsEnd(r) == r.kind = "EndOfArchiveData"
    IN EncodeAll(PerFile(bl, SelectSeq(bl, IsStart)) \o SelectSeq(bl, IsEnd))

\* C3: cross-file block order has no effect on per-file output: extracting
\* a well-formed archive leaves in every sink the same bytes as extracting
\* the archive in which each file's blocks (the same blocks, in the same
\* order per file) are written contiguously.
ThmC3 ==
    (Done /\ wstate = "finalized")
        => export = Run(Contiguous(archive), DOMAIN export).export

WitC3 ==
    /\ Done /\ wstate = "finalized"
    /\ Interleaved
    /\ Contiguous(archive) # archive
    /\ Cardinality(DOMAIN export) = 2
    /\ \A f \in DOMAIN export : export[f] # <<>>
    /\ export = Run(Contiguous(archive), DOMAIN export).export

\* FileContent blocks decoded for the file named f
ContentBlocks(f) ==
    {i \in 1..Len(blocks) :
        /\ blocks[i].kind = "FileContent"
        /\ \E j \in 1..Len(blocks) :
              /\ blocks[j].kind = "FileStart"
              /\ blocks[j].filename = f
              /\ blocks[j].id = blocks[i].id}

\* C4: a file written through StreamWriter in any number of chunks (by
\* write_all or by io::copy), then ended and the archive finalized, reads
\* back as the concatenation of the chunks in call order, whatever blocks
\* the chunks became.
ThmC4 ==
    (Done /\ wstate = "finalized")
        => \A f \in Requested : export[f] = files[f]

\* one file of two blocks and one file of a single block, of equal length,
\* both read back whole
WitC4 ==
    /\ Done /\ wstate = "finalized"
    /\ \E f, g \in Requested :
          /\ Cardinality(ContentBlocks(f)) = 2
          /\ Cardinality(ContentBlocks(g)) = 1
          /\ Len(files[f]) = 2
          /\ Len(files[g]) = 2
          /\ export[f] = files[f]
          /\ export[g] = files[g]

\* C5: an archive whose first block is EndOfArchiveData extracts with Ok
\* against any export map, empty or not, and every sink stays empty.
ThmC5 ==
    (Done /\ archive # <<>> /\ Head(archive) = TagEndOfArchiveData)
        => /\ result = "Ok"
           /\ \A f \in DOMAIN export : export[f] = <<>>

WitC5 ==
    /\ Done
    /\ archive # <<>> /\ Head(archive) = TagEndOfArchiveData
    /\ DOMAIN export = Names
    /\ blocks # <<>>
    /\ result = "Ok"

\* a FileStart for id was decoded before the i-th block and no EndOfFile
\* for id between the two
OpenAt(i, id) ==
    \E j \in 1..(i - 1) :
        /\ blocks[j].kind = "FileStart"
        /\ blocks[j].id = id
        /\ \A k \in (j + 1)..(i - 1) :
              ~(blocks[k].kind = "EndOfFile" /\ blocks[k].id = id)

\* the i-th decoded block is an EndOfFile of an id never opened or already
\* closed
Stray(i) == blocks[i].kind = "EndOfFile" /\ ~OpenAt(i, blocks[i].id)

\* the stream s without the n bytes at offset `at`
Without(s, at, n) == SubSeq(s, 1, at) \o SubSeq(s, at + n + 1, Len(s))

\* C6: an EndOfFile block whose id was never opened, or was already closed,
\* raises no error, and the call ends with the same result and the same
\* bytes in every sink as it does on the stream without that block.
ThmC6 ==
    \A i \in 1..Len(blocks) :
        Stray(i) =>
            /\ (i = Len(blocks) => result = "none")
            /\ Done =>
                 LET r == Run(Without(archive, blocks[i].at, Len(EncEndOfFile(0))),
                              DOMAIN export)
                 IN r.export = export /\ r.result = result

\* a stray EndOfFile between the FileStart and a FileContent of a requested
\* file, whose bytes reach the sink all the same
WitC6 ==
    /\ Done
    /\ \E i, j, k \in 1..Len(blocks) :
          /\ j < i /\ i < k
          /\ Stray(i)
          /\ blocks[j].kind = "FileStart"
          /\ blocks[j].filename \in DOMAIN export
          /\ blocks[k].kind = "FileContent"
          /\ blocks[k].id = blocks[j].id
          /\ export[blocks[j].filename] # <<>>

\* C7: linear_extract returns Ok only when the last block it decoded is an
\* EndOfArchiveData; a call that ends without having decoded one (the input
\* ended between blocks or inside a payload) ends with an error.
ThmC7 ==
    /\ result = "Ok" =>
          /\ blocks # <<>>
          /\ blocks[Len(blocks)].kind = "EndOfArchiveData"
    /\ (Done /\ \A i \in 1..Len(blocks) : blocks[i].kind # "EndOfArchiveData")
          => result = "Err"

\* the input ends inside the payload of a FileContent block
WitC7 ==
    /\ Done
    /\ result = "Err"
    /\ pos = Len(archive)
    /\ Len(blocks) >= 2
    /\ LET b == blocks[Len(blocks) - 1] IN
          /\ b.kind = "FileContent"
          /\ b.next + b.length > Len(archive)
          /\ b.next < Len(archive)

\* C8: the step whose decode fails ends the call with the error and leaves
\* every sink and the registry as the earlier blocks made them; after it no
\* block is decoded and nothing moves.
ThmC8 ==
    [][(result' = "Err") =>
          /\ pc' = "done"
          /\ export' = export
          /\ id2filename' = id2filename
          /\ ~blocks'[Len(blocks')].ok
          /\ (result = "Err" => blocks' = blocks /\ pos' = pos)]_vars

\* a failed decode in mid-stream after a sink has received bytes
WitC8 ==
    /\ result = "Err"
    /\ pos < Len(archive)
    /\ \E f \in DOMAIN export : export[f] # <<>>

\* C9: a call seeks exactly once, to offset zero, before it decodes any
\* block; from then on it never seeks again and the read offsets of the
\* BufReader and of the source under it never decrease.
ThmC9 ==
    /\ [](pc \in {"read_block", "done"} => seeks = <<0>>)
    /\ [](blocks # <<>> => seeks = <<0>>)
    /\ [][seeks # <<>> =>
            /\ seeks' = seeks
            /\ pos' >= pos
            /\ srcPos' >= srcPos]_vars

WitC9 ==
    /\ Done
    /\ seeks = <<0>>
    /\ Len(blocks) >= 3
    /\ result = "Err"
    /\ srcPos > pos

\* C10: a key of the export map that names no archived file has an empty
\* sink throughout the call, and the call still ends with Ok.
ThmC10 ==
    \A f \in DOMAIN export \ DOMAIN files :
        /\ export[f] = <<>>
        /\ Done => result = "Ok"

WitC10 ==
    /\ Done /\ wstate = "finalized"
    /\ DOMAIN export \ DOMAIN files # {}
    /\ dropped = 0
    /\ \E g \in Requested : export[g] = files[g] /\ files[g] # <<>>

\* C11: a StreamWriter::write call is all or nothing: when it succeeds the
\* archive has grown by exactly one FileContent block of the adapter's id
\* whose declared length and payload are the chunk's, and the call returns
\* the chunk's full size; when it fails it returns an error and the archive
\* is as it was.
ThmC11 ==
    [][(wres'.called /\ (wres' # wres \/ archive' # archive)) =>
          IF wres'.ok
          THEN /\ wres'.n = wres'.len
               /\ archive' = archive \o
                    EncFileContent(wres'.id, wres'.len, Data(Len(archive), wres'.len))
               /\ wres'.id \in DOMAIN openFiles
          ELSE /\ archive' = archive
               /\ wres'.n = 0]_vars

\* a write to an ended file that failed, after a write that succeeded
WitC11 ==
    /\ wres.called /\ ~wres.ok
    /\ wres.id < nextId
    /\ wres.id \notin DOMAIN openFiles
    /\ nblocks >= 1

\* a step that is a StreamWriter::flush call
IsFlush == flushed' # flushed /\ wstate' = "writing"

\* C12: StreamWriter::flush writes no block and closes no file: the archive
\* bytes and the set of open files are unchanged by it, and a write to any
\* file that was open before the flush is still accepted after it.
ThmC12 ==
    [][IsFlush =>
          /\ archive' = archive
          /\ openFiles' = openFiles
          /\ flushed' = Len(archive)
          /\ \A id \in DOMAIN openFiles :
                write(archive', DOMAIN openFiles', id, <<0>>).ok]_vars

\* flushed after a write, the file still open, then written again
WitC12 ==
    /\ wstate = "writing"
    /\ wres.called /\ wres.ok
    /\ flushed > 0
    /\ flushed < Len(archive)
    /\ wres.id \in DOMAIN openFiles
    /\ Len(archive) = flushed + 3 + wres.len

\* offset the call reads at once it has handled the i-th decoded block
After(i) == IF i < Len(blocks) THEN blocks[i + 1].at ELSE pos

\* payload bytes the source holds for the i-th decoded block
Held(i) == Min(blocks[i].length, Len(archive) - blocks[i].next)

\* C13 as stated: after every FileContent block exactly `length` bytes have
\* been consumed, so the next decode starts `length` bytes after the header.
CexC13 ==
    \A i \in 1..Len(blocks) :
        blocks[i].kind = "FileContent"
            => After(i) = blocks[i].next + blocks[i].length

\* C13, amended: after every FileContent block, copied or discarded, the
\* bytes consumed are the `length` bytes after the header when the source
\* holds that many, and else all the bytes that are left; the next decode
\* starts right after them.
ThmC13 ==
    \A i \in 1..Len(blocks) :
        blocks[i].kind = "FileContent"
            => /\ After(i) = blocks[i].next + Held(i)
               /\ (blocks[i].next + blocks[i].length <= Len(archive)
                     => After(i) = blocks[i].next + blocks[i].length)
               /\ (blocks[i].next + blocks[i].length > Len(archive)
                     => After(i) = Len(archive))

\* a whole payload discarded, then a payload cut short copied to a sink, then
\* the failing decode at the end of the input
WitC13 ==
    /\ Done
    /\ dropped > 0
    /\ \E i, j \in 1..Len(blocks) :
          /\ i < j /\ j < Len(blocks)
          /\ blocks[i].kind = "FileContent"
          /\ Held(i) = blocks[i].length
          /\ blocks[j].kind = "FileContent"
          /\ Held(j) < blocks[j].length
          /\ Held(j) > 0
    /\ \E f \in DOMAIN export : export[f] # <<>>

\* a FileStart for id with a requested filename was decoded before the i-th
\* block and no EndOfFile for id between the two
ReqOpenAt(i, id) ==
    \E j \in 1..(i - 1) :
        /\ blocks[j].kind = "FileStart"
        /\ blocks[j].id = id
        /\ blocks[j].filename \in DOMAIN export
        /\ \A k \in (j + 1)..(i - 1) :
              ~(blocks[k].kind = "EndOfFile" /\ blocks[k].id = id)

\* the block the next turn of the loop decodes
NextBlock == DecodeBlock(archive, pos)

\* C14: the step that handles a FileContent block whose id has no open
\* FileStart of a requested filename (never opened, opened for filenames
\* that are not requested, or closed by EndOfFile) raises no error, changes
\* no sink, sends the payload to io::sink() and goes on to the next block.
ThmC14 ==
    [][(/\ pc = "read_block"
        /\ NextBlock.kind = "FileContent"
        /\ ~ReqOpenAt(Len(blocks) + 1, NextBlock.id))
          => /\ result' = "none"
             /\ pc' = "read_block"
             /\ export' = export
             /\ id2filename' = id2filename
             /\ dropped' = dropped + (pos' - NextBlock.next)
             /\ pos' = Min(NextBlock.next + NextBlock.length, Len(archive))]_vars

\* a requested file opened, closed, and then a FileContent of its id
WitC14 ==
    /\ dropped > 0
    /\ \E j, k, i \in 1..Len(blocks) :
          /\ j < k /\ k < i
          /\ blocks[j].kind = "FileStart"
          /\ blocks[j].filename \in DOMAIN export
          /\ export[blocks[j].filename] = <<>>
          /\ blocks[k].kind = "EndOfFile"
          /\ blocks[k].id = blocks[j].id
          /\ blocks[i].kind = "FileContent"
          /\ blocks[i].id = blocks[j].id
          /\ blocks[i].length > 0

\* the payload bytes the writer of the next block's file has not accepted
\* when the turn of the loop is over
Refused ==
    LET f == id2filename[NextBlock.id]
    IN Len(export[f]) + Len(Take(archive, NextBlock.next, NextBlock.length))
         - Len(export'[f])

\* C15: when the writer of an extracted file fails during the copy of a
\* FileContent block (it has taken only a part of the payload), the call
\* ends at once with that error: the block is the last one decoded, no other
\* sink gets a byte, and nothing changes after the call has ended.
ThmC15 ==
    [][/\ (/\ pc = "read_block"
           /\ NextBlock.kind = "FileContent"
           /\ NextBlock.id \in DOMAIN id2filename
           /\ id2filename[NextBlock.id] \in DOMAIN export
           /\ Refused > 0)
             => /\ result' = "SinkErr"
                /\ pc' = "done"
                /\ blocks' = Append(blocks, NextBlock)
                /\ \A f \in DOMAIN export \ {id2filename[NextBlock.id]} :
                      export'[f] = export[f]
       /\ result = "SinkErr" => UNCHANGED rvars]_vars

\* a writer failed after a part of a payload, with data in a sink and a
\* well-formed block left unread behind the payload
WitC15 ==
    /\ Done
    /\ result = "SinkErr"
    /\ \E f \in DOMAIN export : export[f] # <<>>
    /\ Len(blocks) > 1
    /\ blocks[Len(blocks)].kind = "FileContent"
    /\ pos < Len(archive)
    /\ DecodeBlock(archive, pos).ok

\* the ids with an open FileStart of a requested filename once the decoded
\* blocks have been handled
OpenRequested ==
    {id \in {blocks[j].id : j \in 1..Len(blocks)} : ReqOpenAt(Len(blocks) + 1, id)}

\* C16: at every step the registry holds an id only if a FileStart for that
\* id with a filename of the export map has been decoded and no EndOfFile
\* for the id since; so it never holds more entries than there are requested
\* files open at that point of the stream, whatever else the stream holds.
ThmC16 ==
    /\ \A id \in DOMAIN id2filename :
          /\ ReqOpenAt(Len(blocks) + 1, id)
          /\ id2filename[id] \in DOMAIN export
    /\ Cardinality(DOMAIN id2filename) <= Cardinality(OpenRequested)

\* one requested file open, after a FileStart that is not requested and an
\* EndOfFile were decoded
WitC16 ==
    /\ pc = "read_block"
    /\ Cardinality(DOMAIN id2filename) = 1
    /\ \E j, k \in 1..Len(blocks) :
          /\ blocks[j].kind = "FileStart"
          /\ blocks[j].filename \notin DOMAIN export
          /\ blocks[k].kind = "EndOfFile"

\* an EndOfArchiveData block is among the decoded blocks
SentinelSeen == \E i \in 1..Len(blocks) : blocks[i].kind = "EndOfArchiveData"

\* C17: once EndOfArchiveData is decoded the call is over with Ok: the
\* sentinel is the last block decoded, and afterwards no block is decoded,
\* the source is not read, and no sink and no registry entry changes,
\* whatever follows the sentinel in the stream.
ThmC17 ==
    [][/\ \A i \in 1..Len(blocks') :
             blocks'[i].kind = "EndOfArchiveData"
                => i = Len(blocks') /\ pc' = "done" /\ result' = "Ok"
       /\ SentinelSeen => UNCHANGED rvars]_vars

\* the call ended at a sentinel that is followed by a FileContent block of
\* a file that is being extracted
WitC17 ==
    /\ Done
    /\ SentinelSeen
    /\ Len(blocks) > 1
    /\ blocks[Len(blocks)].next = pos
    /\ pos < Len(archive)
    /\ DecodeBlock(archive, pos).kind = "FileContent"
    /\ DecodeBlock(archive, pos).id \in DOMAIN id2filename

\* the archive s without the blocks of the files whose filename is not in
\* keys (the file of a block is the one whose FileStart has its id)
Strip(s, keys) ==
    LET bl == ParseFrom(s, 0)
        Owner(id) == {bl[j].filename : j \in {x \in 1..Len(bl) :
                          bl[x].kind = "FileStart" /\ bl[x].id = id}}
        Keep(r) == \/ r.kind = "EndOfArchiveData"
                   \/ r.kind = "FileStart" /\ r.filename \in keys
                   \/ r.kind \in {"FileContent", "EndOfFile"}
                        /\ Owner(r.id) \cap keys # {}
    IN EncodeAll(SelectSeq(bl, Keep))

\* C19: the sinks and the result depend only on the blocks of the requested
\* files.  Two archives with the same blocks of requested files have the
\* same Strip, so it is enough that extracting an archive gives every sink
\* the same content, and the same result, as extracting its Strip.
ThmC19 ==
    (Done /\ wstate = "finalized")
        => LET r == Run(Strip(archive, DOMAIN export), DOMAIN export)
           IN r.export = export /\ r.result = result /\ result = "Ok"

\* two interleaved files with content, one of them requested
WitC19 ==
    /\ Done /\ wstate = "finalized"
    /\ Interleaved
    /\ Cardinality(DOMAIN export \cap DOMAIN files) = 1
    /\ Len(Strip(archive, DOMAIN export)) < Len(archive) - 6
    /\ \A f \in Requested : export[f] # <<>>

\* the most recent FileStart of id with a requested filename before the
\* i-th block
LastReqStart(i, id) ==
    CHOOSE j \in 1..(i - 1) :
        /\ blocks[j].kind = "FileStart" /\ blocks[j].id = id
        /\ blocks[j].filename \in DOMAIN export
        /\ \A k \in (j + 1)..(i - 1) :
              ~(/\ blocks[k].kind = "FileStart" /\ blocks[k].id = id
                /\ blocks[k].filename \in DOMAIN export)

\* C20: a FileStart with a requested filename sets the registry entry of
\* its id, replacing one that is there; a FileStart with a filename that is
\* not requested leaves the registry as it is; and the payload of a
\* FileContent block whose id has a requested FileStart open goes to the
\* sink of the most recent requested FileStart of the id, and to no other.
ThmC20 ==
    [][(pc = "read_block" /\ NextBlock.ok)
         => LET b == NextBlock
                n == Len(blocks) + 1
            IN /\ (b.kind = "FileStart" /\ b.filename \in DOMAIN export)
                    => id2filename' = Insert(id2filename, b.id, b.filename)
               /\ (b.kind = "FileStart" /\ b.filename \notin DOMAIN export)
                    => id2filename' = id2filename
               /\ (b.kind = "FileContent" /\ ReqOpenAt(n, b.id))
                    => export' =
                         [export EXCEPT ![blocks[LastReqStart(n, b.id)].filename] =
                             @ \o Take(archive, b.next, b.length)]]_vars

\* two requested FileStart blocks of one id, then content: it is all in the
\* sink of the second
WitC20 ==
    \E i, j, k \in 1..Len(blocks) :
        /\ i < j /\ j < k
        /\ blocks[i].kind = "FileStart"
        /\ blocks[j].kind = "FileStart"
        /\ blocks[k].kind = "FileContent"
        /\ blocks[i].id = blocks[j].id
        /\ blocks[k].id = blocks[j].id
        /\ blocks[i].filename # blocks[j].filename
        /\ {blocks[i].filename, blocks[j].filename} \subseteq DOMAIN export
        /\ export[blocks[i].filename] = <<>>
        /\ export[blocks[j].filename] # <<>>

\* C18: on every finite stream, well-formed or not, and with writers that
\* accept or refuse bytes, a call of linear_extract ends, with Ok after an
\* EndOfArchiveData or with an error; and every turn of the loop that does
\* not end the call moves forward in the stream.
ThmC18 ==
    /\ (pc = "seek") ~> (Done /\ result \in {"Ok", "Err", "SinkErr"})
    /\ [](result = "Ok" => SentinelSeen)
    /\ [][(pc = "read_block" /\ pc' = "read_block") => pos' > pos]_vars

\* calls that ended in each of the three ways leave states like this one:
\* an error of a writer after blocks were handled, with input left
WitC18 ==
    /\ Done
    /\ result = "SinkErr"
    /\ Len(blocks) = MaxLiveBlocks
    /\ pos < Len(archive)

====
